---- MODULE Spec2Model ----
(***************************************************************************)
(* A model of the uncompressed "TurboGorilla" time-series chunk of         *)
(* RedisTimeSeries (src/turbogorilla_chunk.c).                             *)
(*                                                                         *)
(* A chunk is a record with the fields of struct TurboGorilla_Chunk.  The  *)
(* two malloc'ed arrays are functions over the cell indices 0..k-1; the    *)
(* field alloc is the number of bytes each array was allocated with, so    *)
(* that a cell index can be told in bounds or out of bounds.  A cell that  *)
(* was allocated and never written holds U.                                *)
(*                                                                         *)
(* The model follows one chunk through a sequence of calls of the public   *)
(* functions.  The chunk returned by the last TurboGorilla_SplitChunk is   *)
(* kept in newChunk; the next call is made on either of the two.           *)
(*                                                                         *)
(* Spec has the calls that change a chunk; SpecSer adds save and load,     *)
(* SpecCorrupt a stream damaged in between, SpecReload the use of a loaded *)
(* chunk; SpecRead has the readers and the iterator over a chunk that is   *)
(* appended to; SpecUpsert builds a chunk by upsert alone.                 *)
(***************************************************************************)
EXTENDS Integers, Sequences, FiniteSets

(* ------------------------------ bounds --------------------------------- *)

\* timestamps are drawn from 0..MaxTs
MaxTs == 2

\* values are drawn from 0..MaxVal
MaxVal == 1

\* a chunk is created for at most MaxSamples samples and is never grown
\* beyond MaxSamples samples
MaxSamples == 3

(* ------------------------- program constants --------------------------- *)

\* SAMPLE_SIZE = sizeof(Sample) = sizeof(u_int64_t) + sizeof(double)
SAMPLE_SIZE == 16

\* sizeof(u_int64_t) = sizeof(double): the bytes of one cell of either array
CELL_SIZE == 8

\* the content of an allocated cell that was never written
U == -1

\* what TurboGorilla_GetFirstTimestamp and TurboGorilla_GetLastTimestamp
\* return for an empty chunk: the literal -1 (as a timestamp_t, a value no
\* timestamp of the model takes)
NoTimestamp == -1

Timestamps == 0..MaxTs
Values == 0..MaxVal

\* the byte sizes a chunk is created with: every multiple of half a sample
InitSizes == {n * CELL_SIZE : n \in 0..(2 * MaxSamples)}

CR_OK == "CR_OK"
CR_ERR == "CR_ERR"
CR_END == "CR_END"
\* the call did not return: the process died on an invalid memory access
FAULT == "FAULT"
\* the call returns no ChunkResult
NONE == "NONE"

(* --------------------------- undefined reads --------------------------- *)

\* What an access with undefined behaviour turns out to do: the process
\* dies, or the access goes through and the cell holds (ts, value).
UBOutcomes ==
    [fault : {TRUE}, ts : {0}, value : {0}]
        \cup [fault : {FALSE}, ts : Timestamps, value : Values]

\* the outcomes of an undefined access to a timestamp cell alone
UBTimestampOutcomes == {u \in UBOutcomes : u.value = 0}

\* the outcome handed to a call none of whose accesses is undefined
NoUB == [fault |-> FALSE, ts |-> 0, value |-> 0]

Max(a, b) == IF a >= b THEN a ELSE b

\* cell i lies inside an array of alloc bytes
InBounds(alloc, i) == i >= 0 /\ (i + 1) * CELL_SIZE <= alloc

\* malloc(bytes): the cells that fit, none of them written
Malloc(bytes) == [i \in 0..((bytes \div CELL_SIZE) - 1) |-> U]

\* realloc(buf, bytes): the cells that fit, the old content kept
Realloc(buf, bytes) ==
    [i \in 0..((bytes \div CELL_SIZE) - 1) |-> IF i \in DOMAIN buf THEN buf[i] ELSE U]

\* buf[i] = x.  A store outside the allocation lands in memory the array
\* does not own: what the cell holds afterwards is w.
Store(buf, alloc, i, x, w) ==
    IF InBounds(alloc, i)
    THEN [buf EXCEPT ![i] = x]
    ELSE [j \in 0..Max(i, Cardinality(DOMAIN buf) - 1) |->
            IF j = i THEN w ELSE IF j \in DOMAIN buf THEN buf[j] ELSE U]

\* the value read from buf[i]; an unwritten or out-of-bounds cell reads as w
Load(buf, alloc, i, w) ==
    IF i \in DOMAIN buf /\ buf[i] # U THEN buf[i] ELSE w

(* ------------------------------- state --------------------------------- *)

VARIABLES
    chunk,      \* the chunk the calls are made on
    newChunk,   \* <<c>>: the chunk returned by the last split; <<>>: none
    stream,     \* <<s>>: what the last call, a serialize, wrote; <<>>: nothing
    loaded,     \* <<c>>: the chunk the last call, a deserialize, built; <<>>: none
    op,         \* the public function that was called and has not yet been
                \* returned from, or "idle"
    args,       \* the arguments it was called with
    ret,        \* its ChunkResult (NONE when it returns none, FAULT when it died)
    out,        \* its other output: *size of upsert, the count of del_range,
                \* the returned timestamp or count, *value or *timestamp of
                \* a positional read
    iter,       \* <<it>>: the iterator made by TurboGorilla_NewChunkIterator
                \* and not yet freed; <<>>: none
    sample,     \* the caller's Sample that the iterator calls write to
    driven,     \* history: how many GetNext and GetPrev calls iter has had
    done        \* history: the samples added since the chunk was created,
                \* in the order of the calls

vars == <<chunk, newChunk, stream, loaded, op, args, ret, out, iter, sample, driven, done>>

\* what the readers and the iterator use, which the other calls leave alone
readVars == <<iter, sample, driven, done>>

(* --------------------------- the chunk code ---------------------------- *)

TurboGorilla_NewChunk(size, garbage) ==
    [start_ts |-> garbage,
     num_samples |-> 0,
     size |-> size,
     buffer_in_use |-> TRUE,
     alloc |-> size \div 2,
     buffer_ts |-> Malloc(size \div 2),
     buffer_values |-> Malloc(size \div 2)]

IsChunkFull(c) == c.num_samples = c.size \div SAMPLE_SIZE

TurboGorilla_NumOfSample(c) == c.num_samples

\* AddSampleOptimized with the capacity test off by one: a full chunk takes
\* one more sample
AddSampleOptimized_OffByOne(c, timestamp, value, u) ==
    IF c.num_samples > c.size \div SAMPLE_SIZE
    THEN [ret |-> CR_END, chunk |-> c]
    ELSE LET pos == c.num_samples
         IN  [ret |-> CR_OK,
              chunk |->
                [c EXCEPT
                    !.start_ts = IF c.num_samples = 0 THEN timestamp ELSE @,
                    !.buffer_ts = Store(@, c.alloc, pos, timestamp, u.ts),
                    !.buffer_values = Store(@, c.alloc, pos, value, u.value),
                    !.num_samples = @ + 1]]

\* the result of TurboGorilla_AddSampleOptimized(c, timestamp, value)
AddSampleOptimized(c, timestamp, value, u) ==
    IF IsChunkFull(c)
    THEN [ret |-> CR_END, chunk |-> c]
    ELSE IF ~InBounds(c.alloc, c.num_samples) /\ u.fault
    THEN [ret |-> FAULT, chunk |-> c]
    ELSE LET pos == c.num_samples
         IN  [ret |-> CR_OK,
              chunk |->
                [c EXCEPT
                    !.start_ts = IF c.num_samples = 0 THEN timestamp ELSE @,
                    !.buffer_ts = Store(@, c.alloc, pos, timestamp, u.ts),
                    !.buffer_values = Store(@, c.alloc, pos, value, u.value),
                    !.num_samples = @ + 1]]

\* the loop of TurboGorilla_SplitChunk: samples from+i .. from+count-1 of c
\* are appended to the new chunk n
RECURSIVE SplitCopy(_, _, _, _, _)
SplitCopy(n, c, from, i, count) ==
    IF i >= count
    THEN n
    ELSE LET ts == Load(c.buffer_ts, c.alloc, from + i, NoUB.ts)
             v  == Load(c.buffer_values, c.alloc, from + i, NoUB.value)
         IN  SplitCopy(AddSampleOptimized(n, ts, v, NoUB).chunk, c, from, i + 1, count)

\* TurboGorilla_SplitChunk copying the right half from index
\* newChunkNumSamples instead of currentChunkNumSamples
SplitChunk_WrongOffset(c, garbage) ==
    LET newChunkNumSamples == c.num_samples \div 2
        currentChunkNumSamples == c.num_samples - newChunkNumSamples
        created == TurboGorilla_NewChunk(newChunkNumSamples * SAMPLE_SIZE, garbage)
        old_ts_size == currentChunkNumSamples * CELL_SIZE
    IN  [right |-> SplitCopy(created, c, newChunkNumSamples, 0, newChunkNumSamples),
         left |->
            [c EXCEPT
                !.num_samples = currentChunkNumSamples,
                !.size = currentChunkNumSamples * SAMPLE_SIZE,
                !.alloc = old_ts_size,
                !.buffer_ts = Realloc(@, old_ts_size),
                !.buffer_values = Realloc(@, old_ts_size)]]

\* TurboGorilla_SplitChunk(c): left is c as the call leaves it, right is the
\* chunk it returns
TurboGorilla_SplitChunk(c, garbage) ==
    LET newChunkNumSamples == c.num_samples \div 2
        currentChunkNumSamples == c.num_samples - newChunkNumSamples
        created == TurboGorilla_NewChunk(newChunkNumSamples * SAMPLE_SIZE, garbage)
        old_ts_size == currentChunkNumSamples * CELL_SIZE
        old_values_size == currentChunkNumSamples * CELL_SIZE
    IN  [right |-> SplitCopy(created, c, currentChunkNumSamples, 0, newChunkNumSamples),
         left |->
            [c EXCEPT
                !.num_samples = currentChunkNumSamples,
                !.size = currentChunkNumSamples * SAMPLE_SIZE,
                !.alloc = old_ts_size,
                !.buffer_ts = Realloc(@, old_ts_size),
                !.buffer_values = Realloc(@, old_values_size)]]

\* memmove(&buf[idx + 1], &buf[idx], (n - idx) cells); a moved cell that
\* falls outside the allocation holds w afterwards
MemmoveRight(buf, alloc, idx, n, w) ==
    IF idx < n
    THEN [j \in 0..Max(n, Cardinality(DOMAIN buf) - 1) |->
            IF j > idx /\ j <= n
            THEN IF InBounds(alloc, j) THEN buf[j - 1] ELSE w
            ELSE IF j \in DOMAIN buf THEN buf[j] ELSE U]
    ELSE buf

\* GrowIfFull that reallocates the arrays and forgets to update size
GrowIfFull_KeepsSize(c) ==
    IF IsChunkFull(c)
    THEN LET new_ts_size == (c.size + SAMPLE_SIZE) \div 2 + CELL_SIZE
         IN  [c EXCEPT
                !.alloc = new_ts_size,
                !.buffer_ts = Realloc(@, new_ts_size),
                !.buffer_values = Realloc(@, new_ts_size)]
    ELSE c

\* GrowIfFull that grows by two samples at a time
GrowIfFull_TwoSamples(c) ==
    IF IsChunkFull(c)
    THEN LET size == c.size + 2 * SAMPLE_SIZE
             new_ts_size == size \div 2 + CELL_SIZE
         IN  [c EXCEPT
                !.size = size,
                !.alloc = new_ts_size,
                !.buffer_ts = Realloc(@, new_ts_size),
                !.buffer_values = Realloc(@, new_ts_size)]
    ELSE c

\* the chunk after the size update and the two realloc calls of upsertChunk
GrowIfFull(c) ==
    IF IsChunkFull(c)
    THEN LET size == c.size + SAMPLE_SIZE
             new_ts_size == size \div 2 + CELL_SIZE
         IN  [c EXCEPT
                !.size = size,
                !.alloc = new_ts_size,
                !.buffer_ts = Realloc(@, new_ts_size),
                !.buffer_values = Realloc(@, new_ts_size)]
    ELSE c

\* upsertChunk without the two memmove calls: the sample at idx is overwritten
upsertChunk_NoShift(c, idx, ts, value, u) ==
    LET g == GrowIfFull(c)
    IN  [g EXCEPT
            !.buffer_ts = Store(@, g.alloc, idx, ts, u.ts),
            !.buffer_values = Store(@, g.alloc, idx, value, u.value),
            !.num_samples = @ + 1]

\* upsertChunk(c, idx, ts, value)
upsertChunk(c, idx, ts, value, u) ==
    LET g == GrowIfFull(c)
        n == g.num_samples
    IN  [g EXCEPT
            !.buffer_ts =
                Store(MemmoveRight(@, g.alloc, idx, n, u.ts), g.alloc, idx, ts, u.ts),
            !.buffer_values =
                Store(MemmoveRight(@, g.alloc, idx, n, u.value), g.alloc, idx, value, u.value),
            !.num_samples = @ + 1]

\* upsertChunk writes cell num_samples, by the memmove or by the store
UpsertChunkOutOfBounds(c) == ~InBounds(GrowIfFull(c).alloc, c.num_samples)

\* handleDuplicateSample(policy, oldValue, &newValue): every result a
\* duplicate policy may give: a conflict, or a resolved value left in newValue
handleDuplicateSample(oldValue, newValue) ==
    {[cr |-> CR_ERR, value |-> newValue]}
        \cup {[cr |-> CR_OK, value |-> r] : r \in Values}

\* SamplePos counting the timestamps less than or equal to ts
SamplePos_LessOrEqual(c, ts) ==
    Cardinality({i \in 0..(c.num_samples - 1) : Load(c.buffer_ts, c.alloc, i, U) <= ts})

\* the number of the first numSamples timestamps that are less than ts
SamplePos(c, ts) ==
    Cardinality({i \in 0..(c.num_samples - 1) : Load(c.buffer_ts, c.alloc, i, U) < ts})

\* found of TurboGorilla_UpsertSample
Found(c, ts) ==
    /\ SamplePos(c, ts) < c.num_samples
    /\ Load(c.buffer_ts, c.alloc, SamplePos(c, ts), U) = ts

\* UpsertSample that stores the incoming value before it looks at the result
\* of handleDuplicateSample
UpsertSample_StoresOnConflict(c, ts, value, dup, u) ==
    LET sample_pos == SamplePos(c, ts)
    IN  IF Found(c, ts)
        THEN [ret |-> IF dup.cr # CR_OK THEN CR_ERR ELSE CR_OK, size |-> 0,
              chunk |-> [c EXCEPT !.buffer_values[sample_pos] = dup.value]]
        ELSE [ret |-> CR_OK, size |-> 1,
              chunk |->
                upsertChunk([c EXCEPT !.start_ts = IF sample_pos = 0 THEN ts ELSE @],
                            sample_pos, ts, value, u)]

\* UpsertSample that stores the incoming value instead of the resolved one
UpsertSample_StoresIncoming(c, ts, value, dup, u) ==
    LET sample_pos == SamplePos(c, ts)
    IN  IF Found(c, ts)
        THEN IF dup.cr # CR_OK
             THEN [ret |-> CR_ERR, size |-> 0, chunk |-> c]
             ELSE [ret |-> CR_OK, size |-> 0,
                   chunk |-> [c EXCEPT !.buffer_values[sample_pos] = value]]
        ELSE [ret |-> CR_OK, size |-> 1,
              chunk |->
                upsertChunk([c EXCEPT !.start_ts = IF sample_pos = 0 THEN ts ELSE @],
                            sample_pos, ts, value, u)]

\* UpsertSample that leaves start_ts alone when it inserts at index 0
UpsertSample_KeepsStart(c, ts, value, dup, u) ==
    LET sample_pos == SamplePos(c, ts)
    IN  IF Found(c, ts)
        THEN IF dup.cr # CR_OK
             THEN [ret |-> CR_ERR, size |-> 0, chunk |-> c]
             ELSE [ret |-> CR_OK, size |-> 0,
                   chunk |-> [c EXCEPT !.buffer_values[sample_pos] = dup.value]]
        ELSE [ret |-> CR_OK, size |-> 1,
              chunk |-> upsertChunk(c, sample_pos, ts, value, u)]

\* the result of TurboGorilla_UpsertSample on chunk c with sample
\* (ts, value), where dup is what handleDuplicateSample gives if it is called
UpsertSample(c, ts, value, dup, u) ==
    LET sample_pos == SamplePos(c, ts)
    IN  IF Found(c, ts)
        THEN IF dup.cr # CR_OK
             THEN [ret |-> CR_ERR, size |-> 0, chunk |-> c]
             ELSE [ret |-> CR_OK, size |-> 0,
                   chunk |-> [c EXCEPT !.buffer_values[sample_pos] = dup.value]]
        ELSE IF UpsertChunkOutOfBounds(c) /\ u.fault
        THEN [ret |-> FAULT, size |-> 0,
              chunk |-> [c EXCEPT !.start_ts = IF sample_pos = 0 THEN ts ELSE @]]
        ELSE [ret |-> CR_OK, size |-> 1,
              chunk |->
                upsertChunk([c EXCEPT !.start_ts = IF sample_pos = 0 THEN ts ELSE @],
                            sample_pos, ts, value, u)]

\* DelRangeKept with the range test exclusive at its start
RECURSIVE DelRangeKept_ExclusiveStart(_, _, _, _)
DelRangeKept_ExclusiveStart(c, startTs, endTs, i) ==
    IF i >= c.num_samples
    THEN <<>>
    ELSE LET t == Load(c.buffer_ts, c.alloc, i, U)
         IN  IF t > startTs /\ t <= endTs
             THEN DelRangeKept_ExclusiveStart(c, startTs, endTs, i + 1)
             ELSE <<i>> \o DelRangeKept_ExclusiveStart(c, startTs, endTs, i + 1)

\* the indices, in order from i on, of the samples TurboGorilla_DelRange copies
RECURSIVE DelRangeKept(_, _, _, _)
DelRangeKept(c, startTs, endTs, i) ==
    IF i >= c.num_samples
    THEN <<>>
    ELSE LET t == Load(c.buffer_ts, c.alloc, i, U)
         IN  IF t >= startTs /\ t <= endTs
             THEN DelRangeKept(c, startTs, endTs, i + 1)
             ELSE <<i>> \o DelRangeKept(c, startTs, endTs, i + 1)

\* a new array of array_size bytes with source cells kept[1], kept[2], ...
\* of buf stored at 0, 1, ...
DelRangeCopy(buf, kept, array_size, w) ==
    [k \in 0..(Max(array_size \div CELL_SIZE, Len(kept)) - 1) |->
        IF k < Len(kept)
        THEN IF InBounds(array_size, k) THEN buf[kept[k + 1]] ELSE w
        ELSE U]

\* TurboGorilla_DelRange copies past the end of the new arrays
DelRangeCopiesOutOfBounds(c, startTs, endTs) ==
    LET kept == DelRangeKept(c, startTs, endTs, 0)
    IN  Len(kept) > 0 /\ ~InBounds(c.size \div 2, Len(kept) - 1)

\* TurboGorilla_DelRange reads new_buffer_ts[0] when nothing was copied to it
DelRangeUndefined(c, startTs, endTs) == Len(DelRangeKept(c, startTs, endTs, 0)) = 0

\* the cells of new_buffer_ts that TurboGorilla_DelRange reads once the copy
\* loop is over, to refresh start_ts: cell 0, whatever new_count is
DelRangeReads == {0}

\* the access of TurboGorilla_DelRange that may kill the process: one
\* outside the new arrays
DelRangeOutOfBounds(c, startTs, endTs) ==
    ~InBounds(c.size \div 2, Max(Len(DelRangeKept(c, startTs, endTs, 0)) - 1, 0))

\* DelRange without the refresh of start_ts
DelRange_KeepsStart(c, startTs, endTs, u) ==
    LET array_size == c.size \div 2
        kept == DelRangeKept(c, startTs, endTs, 0)
    IN  [ret |-> NONE, deleted_count |-> c.num_samples - Len(kept),
         chunk |->
            [c EXCEPT
                !.buffer_ts = DelRangeCopy(c.buffer_ts, kept, array_size, u.ts),
                !.buffer_values = DelRangeCopy(c.buffer_values, kept, array_size, u.value),
                !.alloc = array_size,
                !.num_samples = Len(kept)]]

\* the result of TurboGorilla_DelRange(c, startTs, endTs)
DelRange(c, startTs, endTs, u) ==
    LET array_size == c.size \div 2
        kept == DelRangeKept(c, startTs, endTs, 0)
        new_count == Len(kept)
        new_buffer_ts == DelRangeCopy(c.buffer_ts, kept, array_size, u.ts)
        new_buffer_values == DelRangeCopy(c.buffer_values, kept, array_size, u.value)
        deleted_count == c.num_samples - new_count
    IN  IF DelRangeOutOfBounds(c, startTs, endTs) /\ u.fault
        THEN [ret |-> FAULT, deleted_count |-> 0, chunk |-> c]
        ELSE [ret |-> NONE, deleted_count |-> deleted_count,
              chunk |->
                [c EXCEPT
                    !.buffer_ts = new_buffer_ts,
                    !.buffer_values = new_buffer_values,
                    !.alloc = array_size,
                    !.num_samples = new_count,
                    !.start_ts = Load(new_buffer_ts, array_size, 0, u.ts)]]

\* saveUnsigned(ctx, x): x widened to uint64_t.  Every field saved is an
\* unsigned integer of at most 64 bits, so the widening keeps its value.
SaveUnsigned(x) == x

\* readUnsigned(ctx): the uint64_t that was saved
ReadUnsigned(x) == x

\* saveString(ctx, (char *)buf, n * sizeof(cell)): the bytes of the first n
\* cells of buf, cell by cell
SaveString(buf, alloc, n) == [k \in 1..n |-> Load(buf, alloc, k - 1, U)]

\* what TurboGorilla_GenericSerialize(c) writes, in the order it writes it
TurboGorilla_GenericSerialize(c) ==
    <<SaveUnsigned(c.size),
      SaveUnsigned(c.start_ts),
      SaveUnsigned(c.num_samples),
      SaveUnsigned(IF c.buffer_in_use THEN 1 ELSE 0),
      SaveString(c.buffer_ts, c.alloc, c.num_samples),
      SaveString(c.buffer_values, c.alloc, c.num_samples)>>

\* the array readStringBuffer returns for the string str: as many cells as
\* the string has
ReadStringBuffer(str) == [i \in 0..(Len(str) - 1) |-> str[i + 1]]

\* TurboGorilla_GetLastTimestamp reading one cell too far
GetLastTimestamp_OnePast(c) ==
    IF c.num_samples = 0
    THEN NoTimestamp
    ELSE Load(c.buffer_ts, c.alloc, c.num_samples, NoTimestamp)

TurboGorilla_GetLastTimestamp(c) ==
    IF c.num_samples = 0
    THEN NoTimestamp
    ELSE Load(c.buffer_ts, c.alloc, c.num_samples - 1, U)

TurboGorilla_GetFirstTimestamp(c) ==
    IF c.num_samples = 0
    THEN NoTimestamp
    ELSE Load(c.buffer_ts, c.alloc, 0, U)

\* GetSampleAtPos with the test num_samples >= pos
GetSampleAtPos_Inclusive(c, buf, pos, prior) ==
    IF c.num_samples >= pos
    THEN [result |-> CR_OK, output |-> Load(buf, c.alloc, pos, U)]
    ELSE [result |-> CR_ERR, output |-> prior]

\* the body TurboGorilla_GetSampleValueAtPos and
\* TurboGorilla_GetSampleTimestampAtPos share: buf is the array read, prior
\* what the caller's *value or *timestamp holds before the call, output what
\* it holds after
GetSampleAtPos(c, buf, pos, prior) ==
    IF c.num_samples > pos
    THEN [result |-> CR_OK, output |-> Load(buf, c.alloc, pos, U)]
    ELSE [result |-> CR_ERR, output |-> prior]

TurboGorilla_GetSampleValueAtPos(c, pos, prior) ==
    GetSampleAtPos(c, c.buffer_values, pos, prior)

TurboGorilla_GetSampleTimestampAtPos(c, pos, prior) ==
    GetSampleAtPos(c, c.buffer_ts, pos, prior)

(* An iterator is a record with the fields of TurboGorilla_ChunkIterator     *)
(* that the code uses: chunk, options and currentIndex.  The struct is       *)
(* declared in a header; currentIndex is a signed int, as the test of        *)
(* TurboGorilla_ChunkIteratorGetPrev and the specification's "index < 0 in   *)
(* reverse" have it.  options is the set of the flags given.                 *)

CHUNK_ITER_OP_REVERSE == "CHUNK_ITER_OP_REVERSE"

\* currentIndex < num_samples, an int against an unsigned int: the int is
\* converted to unsigned, which takes a negative one above every num_samples
IndexBelow(currentIndex, num_samples) ==
    currentIndex >= 0 /\ currentIndex < num_samples

\* the iterator TurboGorilla_NewChunkIterator(c, options) returns, where h is
\* the handle of c.  In reverse on an empty chunk the unsigned 0 - 1 wraps
\* and is converted to the int -1.
TurboGorilla_NewChunkIterator(h, c, options) ==
    [chunk |-> h,
     options |-> options,
     currentIndex |->
        IF CHUNK_ITER_OP_REVERSE \in options THEN c.num_samples - 1 ELSE 0]

\* the sample at cell i of c, read by an iterator; a cell past num_samples was
\* never written or lies outside the arrays, and reads as u
SampleAt(c, i, u) ==
    [timestamp |-> IF i < c.num_samples
                   THEN Load(c.buffer_ts, c.alloc, i, u.ts) ELSE u.ts,
     value |-> IF i < c.num_samples
               THEN Load(c.buffer_values, c.alloc, i, u.value) ELSE u.value]

\* the iterator reads a cell that holds no sample
IteratorReadUndefined(it, c) == it.currentIndex >= c.num_samples

\* GetNext that forgets to advance
GetNext_NoAdvance(it, c, smp, u) ==
    IF IndexBelow(it.currentIndex, c.num_samples)
    THEN [ret |-> CR_OK, iter |-> it, sample |-> SampleAt(c, it.currentIndex, u)]
    ELSE [ret |-> CR_END, iter |-> it, sample |-> smp]

\* TurboGorilla_ChunkIteratorGetNext(it, &smp) on the chunk c of it
TurboGorilla_ChunkIteratorGetNext(it, c, smp, u) ==
    IF IndexBelow(it.currentIndex, c.num_samples)
    THEN [ret |-> CR_OK,
          iter |-> [it EXCEPT !.currentIndex = @ + 1],
          sample |-> SampleAt(c, it.currentIndex, u)]
    ELSE [ret |-> CR_END, iter |-> it, sample |-> smp]

\* TurboGorilla_ChunkIteratorGetPrev(it, &smp) on the chunk c of it
TurboGorilla_ChunkIteratorGetPrev(it, c, smp, u) ==
    IF it.currentIndex >= 0
    THEN IF ~InBounds(c.alloc, it.currentIndex) /\ u.fault
         THEN [ret |-> FAULT, iter |-> it, sample |-> smp]
         ELSE [ret |-> CR_OK,
               iter |-> [it EXCEPT !.currentIndex = @ - 1],
               sample |-> SampleAt(c, it.currentIndex, u)]
    ELSE [ret |-> CR_END, iter |-> it, sample |-> smp]

\* TurboGorilla_Deserialize reading num_samples before start_ts
Deserialize_SwapsFields(s, garbage) ==
    LET size == ReadUnsigned(s[1])
        uncompchunk == TurboGorilla_NewChunk(size, garbage)
    IN  [uncompchunk EXCEPT
            !.num_samples = ReadUnsigned(s[2]),
            !.start_ts = ReadUnsigned(s[3]),
            !.buffer_in_use = (ReadUnsigned(s[4]) # 0),
            !.alloc = Len(s[5]) * CELL_SIZE,
            !.buffer_ts = ReadStringBuffer(s[5]),
            !.buffer_values = ReadStringBuffer(s[6])]

\* the chunk TurboGorilla_Deserialize builds from the stream s
TurboGorilla_Deserialize(s, garbage) ==
    LET size == ReadUnsigned(s[1])
        uncompchunk == TurboGorilla_NewChunk(size, garbage)
    IN  [uncompchunk EXCEPT
            !.start_ts = ReadUnsigned(s[2]),
            !.num_samples = ReadUnsigned(s[3]),
            !.buffer_in_use = (ReadUnsigned(s[4]) # 0),
            !.alloc = Len(s[5]) * CELL_SIZE,
            !.buffer_ts = ReadStringBuffer(s[5]),
            !.buffer_values = ReadStringBuffer(s[6])]

(* ------------------------------ the calls ------------------------------ *)

\* A call is one step: it changes the chunk and leaves its arguments and its
\* outputs in op, args, ret and out.  The step Return hands control back to
\* the owner of the chunk, which makes the next call.

\* the chunks a call can be made on
Handles == {"chunk"} \cup (IF newChunk = <<>> THEN {} ELSE {"newChunk"})

Target(h) ==
    IF h = "chunk" THEN chunk ELSE IF h = "newChunk" THEN newChunk[1] ELSE loaded[1]

\* the outcomes to choose from for a call whose accesses are undefined
\* (undefined = TRUE) or all defined
UBFor(undefined) == IF undefined THEN UBOutcomes ELSE {NoUB}

LastTimestamp(c) == Load(c.buffer_ts, c.alloc, c.num_samples - 1, U)

\* every result handleDuplicateSample can give
DupResults == [cr : {CR_OK, CR_ERR}, value : Values]

\* args of a call: the chunk it is made on (h), the sample, the range or the
\* position it is given, and what handleDuplicateSample gives if the call
\* reaches it
NoArgs ==
    [h |-> "chunk", ts |-> 0, value |-> 0, startTs |-> 0, endTs |-> 0, pos |-> 0,
     dup |-> [cr |-> CR_OK, value |-> 0]]

\* a Sample of the caller that nothing was written to
NoSample == [timestamp |-> U, value |-> U]

\* the history of an iterator that has had no call
NotDriven == [next |-> 0, prev |-> 0]

\* the owner is between two calls
Idle == op = "idle"

Init ==
    /\ \E size \in InitSizes, garbage \in Timestamps :
            chunk = TurboGorilla_NewChunk(size, garbage)
    /\ newChunk = <<>>
    /\ stream = <<>>
    /\ loaded = <<>>
    /\ op = "idle"
    /\ args = NoArgs
    /\ ret = NONE
    /\ out = 0
    /\ iter = <<>>
    /\ sample = NoSample
    /\ driven = NotDriven
    /\ done = <<>>

TurboGorilla_AddSampleOptimized(h, timestamp, value) ==
    LET c == Target(h)
    IN  \E u \in UBFor(~IsChunkFull(c) /\ ~InBounds(c.alloc, c.num_samples)) :
            LET r == AddSampleOptimized(c, timestamp, value, u)
            IN  /\ chunk' = r.chunk
                /\ newChunk' = <<>>
                /\ stream' = <<>>
                /\ loaded' = <<>>
                /\ op' = "add"
                /\ args' = [NoArgs EXCEPT !.h = h, !.ts = timestamp, !.value = value]
                /\ ret' = r.ret
                /\ out' = 0

\* an append that keeps the caller's side of the contract: the timestamp is
\* greater than the last one of the chunk
MonotonicAdd(h, timestamp, value) ==
    /\ Target(h).num_samples = 0 \/ timestamp > LastTimestamp(Target(h))
    /\ TurboGorilla_AddSampleOptimized(h, timestamp, value)

\* dup is what handleDuplicateSample gives when the call reaches it, and the
\* incoming sample untouched when it does not
TurboGorilla_UpsertSample(h, timestamp, value, dup) ==
    LET c == Target(h)
    IN  /\ Found(c, timestamp) \/ c.num_samples < MaxSamples
        /\ dup \in (IF Found(c, timestamp)
                    THEN handleDuplicateSample(
                            c.buffer_values[SamplePos(c, timestamp)], value)
                    ELSE {[cr |-> CR_OK, value |-> value]})
        /\ \E u \in UBFor(~Found(c, timestamp) /\ UpsertChunkOutOfBounds(c)) :
                LET r == UpsertSample(c, timestamp, value, dup, u)
                IN  /\ chunk' = r.chunk
                    /\ newChunk' = <<>>
                    /\ stream' = <<>>
                    /\ loaded' = <<>>
                    /\ op' = "upsert"
                    /\ args' = [NoArgs EXCEPT !.h = h, !.ts = timestamp,
                                              !.value = value, !.dup = dup]
                    /\ ret' = r.ret
                    /\ out' = r.size

SplitChunk(h) ==
    \E garbage \in Timestamps :
        LET r == TurboGorilla_SplitChunk(Target(h), garbage)
        IN  /\ chunk' = r.left
            /\ newChunk' = <<r.right>>
            /\ stream' = <<>>
            /\ loaded' = <<>>
            /\ op' = "split"
            /\ args' = [NoArgs EXCEPT !.h = h]
            /\ ret' = NONE
            /\ out' = 0

TurboGorilla_DelRange(h, startTs, endTs) ==
    LET c == Target(h)
    IN  \E u \in (IF DelRangeCopiesOutOfBounds(c, startTs, endTs)
                   THEN UBOutcomes
                   ELSE IF DelRangeUndefined(c, startTs, endTs)
                   THEN UBTimestampOutcomes
                   ELSE {NoUB}) :
            LET r == DelRange(c, startTs, endTs, u)
            IN  /\ chunk' = r.chunk
                /\ newChunk' = <<>>
                /\ stream' = <<>>
                /\ loaded' = <<>>
                /\ op' = "del_range"
                /\ args' = [NoArgs EXCEPT !.h = h, !.startTs = startTs, !.endTs = endTs]
                /\ ret' = r.ret
                /\ out' = r.deleted_count

\* TurboGorilla_SaveToRDB(h): the chunk is left as it is
Serialize(h) ==
    /\ stream' = <<TurboGorilla_GenericSerialize(Target(h))>>
    /\ loaded' = <<>>
    /\ op' = "serialize"
    /\ args' = [NoArgs EXCEPT !.h = h]
    /\ ret' = NONE
    /\ out' = 0
    /\ UNCHANGED <<chunk, newChunk>>

\* TurboGorilla_LoadFromRDB of what the last call saved
Deserialize ==
    /\ stream # <<>>
    /\ \E garbage \in Timestamps :
            loaded' = <<TurboGorilla_Deserialize(stream[1], garbage)>>
    /\ stream' = <<>>
    /\ op' = "deserialize"
    /\ args' = NoArgs
    /\ ret' = NONE
    /\ out' = 0
    /\ UNCHANGED <<chunk, newChunk>>

\* the call returns to the owner, unless it killed the process
Return ==
    /\ ~Idle
    /\ ret # FAULT
    /\ op' = "idle"
    /\ args' = NoArgs
    /\ ret' = NONE
    /\ out' = 0
    /\ UNCHANGED <<chunk, newChunk, stream, loaded>>
    /\ UNCHANGED readVars

AppendSample ==
    /\ Idle
    /\ \E h \in Handles, t \in Timestamps, v \in Values : MonotonicAdd(h, t, v)
    /\ UNCHANGED readVars

Upsert ==
    /\ Idle
    /\ \E h \in Handles, t \in Timestamps, v \in Values, dup \in DupResults :
            TurboGorilla_UpsertSample(h, t, v, dup)
    /\ UNCHANGED readVars

Split == Idle /\ (\E h \in Handles : SplitChunk(h)) /\ UNCHANGED readVars

Delete ==
    /\ Idle
    /\ \E h \in Handles, startTs \in Timestamps, endTs \in Timestamps :
            TurboGorilla_DelRange(h, startTs, endTs)
    /\ UNCHANGED readVars

Save == Idle /\ (\E h \in Handles : Serialize(h)) /\ UNCHANGED readVars

Load_ == Idle /\ Deserialize /\ UNCHANGED readVars

Next ==
    \/ AppendSample
    \/ Upsert
    \/ Split
    \/ Delete
    \/ Return

\* the chunk under the calls of a caller that keeps its side of the contract
\* of TurboGorilla_AddSampleOptimized
Spec == Init /\ [][Next]_vars

NextSer ==
    \/ AppendSample
    \/ Upsert
    \/ Split
    \/ Delete
    \/ Save
    \/ Load_
    \/ Return

\* the calls of Spec, and chunks saved and loaded back
SpecSer == Init /\ [][NextSer]_vars

\* the num_samples fields a stream can declare
DeclaredCounts == 0..(MaxSamples + 1)

\* The stream TurboGorilla_LoadFromRDB reads is data from outside the program:
\* here what was saved comes back declaring another num_samples.
Corrupt ==
    /\ Idle
    /\ stream # <<>>
    /\ \E n \in DeclaredCounts \ {stream[1][3]} :
            stream' = <<[stream[1] EXCEPT ![3] = n]>>
    /\ UNCHANGED <<chunk, newChunk, loaded, op, args, ret, out>>
    /\ UNCHANGED readVars

NextCorrupt ==
    \/ AppendSample
    \/ Upsert
    \/ Split
    \/ Delete
    \/ Save
    \/ Corrupt
    \/ Load_
    \/ Return

\* the calls of SpecSer, with streams that were damaged between save and load
SpecCorrupt == Init /\ [][NextCorrupt]_vars

\* TurboGorilla_AddSampleOptimized on the chunk that was just loaded, which
\* the calls are made on from then on
AppendLoaded ==
    /\ Idle
    /\ loaded # <<>>
    /\ \E t \in Timestamps, v \in Values : MonotonicAdd("loaded", t, v)
    /\ UNCHANGED readVars

NextReload ==
    \/ AppendSample
    \/ Upsert
    \/ Split
    \/ Delete
    \/ Save
    \/ Load_
    \/ AppendLoaded
    \/ Return

\* the calls of SpecSer, and a loaded chunk that is put to use
SpecReload == Init /\ [][NextReload]_vars

\* the timestamps of the samples added so far
DoneTimestamps == {done[k][1] : k \in DOMAIN done}

\* TurboGorilla_UpsertSample of a sample whose timestamp was not given yet,
\* by a caller that keeps the samples it gave
UpsertFresh ==
    /\ Idle
    /\ \E t \in Timestamps \ DoneTimestamps, v \in Values :
            /\ TurboGorilla_UpsertSample("chunk", t, v, [cr |-> CR_OK, value |-> v])
            /\ done' = Append(done, <<t, v>>)
    /\ UNCHANGED <<iter, sample, driven>>

NextUpsert ==
    \/ UpsertFresh
    \/ Return

\* an empty chunk that is given samples of distinct timestamps, in any order,
\* by upsert alone
SpecUpsert == Init /\ [][NextUpsert]_vars

(* ------------------------- readers and iterator ------------------------ *)

\* the positions a positional read is given: those of the samples, and some
\* past the capacity
Positions == 0..(MaxSamples + 1)

\* the options an iterator is made with
IterOptions == {{}, {CHUNK_ITER_OP_REVERSE}}

\* an iterator gets at most this number of GetNext and GetPrev calls: enough
\* to run through a full chunk and call twice more
MaxIterCalls == MaxSamples + 2

\* The readers are called while no iterator is on the chunk: they neither
\* use nor change one.

\* a call that reads the chunk and changes nothing: it leaves f (its name),
\* a (its arguments), r (its result) and o (its output)
Reads(f, a, r, o) ==
    /\ op' = f
    /\ args' = a
    /\ ret' = r
    /\ out' = o
    /\ UNCHANGED <<chunk, newChunk, stream, loaded>>

NumOfSample ==
    /\ Idle
    /\ iter = <<>>
    /\ \E h \in Handles :
            Reads("count", [NoArgs EXCEPT !.h = h], NONE,
                  TurboGorilla_NumOfSample(Target(h)))
    /\ UNCHANGED readVars

GetFirstTimestamp ==
    /\ Idle
    /\ iter = <<>>
    /\ \E h \in Handles :
            Reads("first", [NoArgs EXCEPT !.h = h], NONE,
                  TurboGorilla_GetFirstTimestamp(Target(h)))
    /\ UNCHANGED readVars

GetLastTimestamp ==
    /\ Idle
    /\ iter = <<>>
    /\ \E h \in Handles :
            Reads("last", [NoArgs EXCEPT !.h = h], NONE,
                  TurboGorilla_GetLastTimestamp(Target(h)))
    /\ UNCHANGED readVars

\* the caller's *value holds U, nothing, before the call
GetSampleValueAtPos ==
    /\ Idle
    /\ iter = <<>>
    /\ \E h \in Handles, pos \in Positions :
            LET r == TurboGorilla_GetSampleValueAtPos(Target(h), pos, U)
            IN  Reads("value_at", [NoArgs EXCEPT !.h = h, !.pos = pos],
                      r.result, r.output)
    /\ UNCHANGED readVars

\* the caller's *timestamp holds U, nothing, before the call
GetSampleTimestampAtPos ==
    /\ Idle
    /\ iter = <<>>
    /\ \E h \in Handles, pos \in Positions :
            LET r == TurboGorilla_GetSampleTimestampAtPos(Target(h), pos, U)
            IN  Reads("timestamp_at", [NoArgs EXCEPT !.h = h, !.pos = pos],
                      r.result, r.output)
    /\ UNCHANGED readVars

\* AppendSample of a caller that keeps the samples the chunk accepted, and
\* leaves the chunk alone while an iterator is on it
AppendLogged ==
    /\ Idle
    /\ iter = <<>>
    /\ \E h \in Handles, t \in Timestamps, v \in Values :
            /\ MonotonicAdd(h, t, v)
            /\ done' = IF ret' = CR_OK THEN Append(done, <<t, v>>) ELSE done
    /\ UNCHANGED <<iter, sample, driven>>

NewChunkIterator ==
    /\ Idle
    /\ iter = <<>>
    /\ \E h \in Handles, options \in IterOptions :
            /\ iter' = <<TurboGorilla_NewChunkIterator(h, Target(h), options)>>
            /\ Reads("new_iter", [NoArgs EXCEPT !.h = h], NONE, 0)
    /\ sample' = NoSample
    /\ driven' = NotDriven
    /\ UNCHANGED done

ChunkIteratorGetNext ==
    /\ Idle
    /\ iter # <<>>
    /\ driven.next + driven.prev < MaxIterCalls
    /\ LET it == iter[1]
           r == TurboGorilla_ChunkIteratorGetNext(it, Target(it.chunk), sample, NoUB)
       IN  /\ iter' = <<r.iter>>
           /\ sample' = r.sample
           /\ Reads("next", [NoArgs EXCEPT !.h = it.chunk], r.ret, 0)
    /\ driven' = [driven EXCEPT !.next = @ + 1]
    /\ UNCHANGED done

ChunkIteratorGetPrev ==
    /\ Idle
    /\ iter # <<>>
    /\ driven.next + driven.prev < MaxIterCalls
    /\ LET it == iter[1]
           c == Target(it.chunk)
       IN  \E u \in UBFor(it.currentIndex >= 0 /\ IteratorReadUndefined(it, c)) :
                LET r == TurboGorilla_ChunkIteratorGetPrev(it, c, sample, u)
                IN  /\ iter' = <<r.iter>>
                    /\ sample' = r.sample
                    /\ Reads("prev", [NoArgs EXCEPT !.h = it.chunk], r.ret, 0)
    /\ driven' = [driven EXCEPT !.prev = @ + 1]
    /\ UNCHANGED done

\* TurboGorilla_FreeChunkIterator of an iterator made without
\* CHUNK_ITER_OP_FREE_CHUNK: the chunk stays
FreeChunkIterator ==
    /\ Idle
    /\ iter # <<>>
    /\ iter' = <<>>
    /\ sample' = NoSample
    /\ driven' = NotDriven
    /\ Reads("free_iter", [NoArgs EXCEPT !.h = iter[1].chunk], NONE, 0)
    /\ UNCHANGED done

NextRead ==
    \/ AppendLogged
    \/ NumOfSample
    \/ GetFirstTimestamp
    \/ GetLastTimestamp
    \/ GetSampleValueAtPos
    \/ GetSampleTimestampAtPos
    \/ NewChunkIterator
    \/ ChunkIteratorGetNext
    \/ ChunkIteratorGetPrev
    \/ FreeChunkIterator
    \/ Return

\* a chunk that is appended to, read, and iterated over
SpecRead == Init /\ [][NextRead]_vars

(* ------------------------------ the claims ----------------------------- *)

\* the stored samples of c, first to last, as <<timestamp, value>> pairs
SamplesOf(c) ==
    [i \in 1..c.num_samples |-> <<c.buffer_ts[i - 1], c.buffer_values[i - 1]>>]

\* the stored timestamps of c are strictly increasing
StrictlyIncreasing(c) ==
    \A i, j \in 0..(c.num_samples - 1) : i < j => c.buffer_ts[i] < c.buffer_ts[j]

\* ts is one of the stored timestamps of c
Present(c, ts) == \E i \in 0..(c.num_samples - 1) : c.buffer_ts[i] = ts

\* the chunk of the model's state and, after a split, the chunk it returned
LiveChunks == {chunk} \cup {newChunk[i] : i \in DOMAIN newChunk}

\* In the claims about one call, a step with op' = "f" is a call of f: the
\* unprimed variables are the state it was made in, args' its arguments, and
\* chunk', ret' and out' what it left.  Called is the chunk it was made on.
Called == Target(args'.h)

\* C1: from a new empty chunk, after any sequence of add_sample_optimized
\* (each with a timestamp greater than the chunk's last), upsert, split and
\* delete_range calls, the timestamps at 0..num_samples-1 are strictly
\* increasing, in the chunk and in every chunk returned by split.
C1_Sorted == \A c \in LiveChunks : StrictlyIncreasing(c)

\* C1 witness: a split of a chunk of three samples has just returned its
\* right half
C1_Witness ==
    /\ op = "split"
    /\ chunk.num_samples = 2
    /\ newChunk # <<>>
    /\ newChunk[1].num_samples = 1
    /\ chunk.buffer_ts[0] < chunk.buffer_ts[1]

\* C2: after every add_sample_optimized, upsert, split (both chunks),
\* delete_range and deserialize of a serialized chunk, a chunk with
\* num_samples > 0 has start_ts equal to the timestamp stored at index 0.
C2_CachedStart ==
    \A c \in LiveChunks \cup {loaded[i] : i \in DOMAIN loaded} :
        c.num_samples > 0 => c.start_ts = c.buffer_ts[0]

\* C2 witness: a chunk of two samples whose first timestamp is not the least
\* of the model has been saved and loaded back
C2_Witness ==
    /\ op = "deserialize"
    /\ loaded # <<>>
    /\ loaded[1].num_samples = 2
    /\ loaded[1].start_ts = 1
    /\ loaded[1].buffer_ts[0] = 1

\* C3: in every state reached from a new chunk by add_sample_optimized,
\* upsert, split and delete_range, num_samples * SAMPLE_SIZE <= size, for the
\* chunk and for every chunk returned by split.
C3_Capacity == \A c \in LiveChunks : c.num_samples * SAMPLE_SIZE <= c.size

\* C3 witness: an upsert has inserted a sample into a chunk that was full,
\* and the chunk is full again
C3_Witness ==
    /\ op = "upsert"
    /\ out = 1
    /\ chunk.num_samples = MaxSamples
    /\ chunk.num_samples * SAMPLE_SIZE = chunk.size

\* C4: at num_samples = size / SAMPLE_SIZE add_sample_optimized returns END
\* and leaves the chunk as it was; otherwise it returns OK, stores the sample
\* at index num_samples and increments num_samples by one.
C4_Append ==
    [][op' = "add" =>
        LET c == Called
        IN  IF c.num_samples = c.size \div SAMPLE_SIZE
            THEN ret' = CR_END /\ chunk' = c
            ELSE /\ ret' = CR_OK
                 /\ chunk'.num_samples = c.num_samples + 1
                 /\ chunk'.buffer_ts[c.num_samples] = args'.ts
                 /\ chunk'.buffer_values[c.num_samples] = args'.value
                 /\ chunk'.size = c.size
                 /\ \A i \in 0..(c.num_samples - 1) :
                        /\ chunk'.buffer_ts[i] = c.buffer_ts[i]
                        /\ chunk'.buffer_values[i] = c.buffer_values[i]]_vars

\* C4 witness: an append to a chunk that holds samples and is at capacity
\* has returned END
C4_Witness == op = "add" /\ ret = CR_END /\ chunk.num_samples > 0

\* C5: an upsert of a timestamp that is present, whose resolver reports a
\* conflict, returns ERR, reports 0 samples added and leaves the chunk, the
\* value stored at that timestamp included, as it was.
C5_UpsertConflict ==
    [][op' = "upsert" /\ Present(Called, args'.ts) /\ args'.dup.cr = CR_ERR =>
        ret' = CR_ERR /\ out' = 0 /\ chunk' = Called]_vars

\* C5 witness: an upsert of a value other than the stored one has returned
\* ERR on a chunk of two samples
C5_Witness ==
    /\ op = "upsert"
    /\ ret = CR_ERR
    /\ chunk.num_samples = 2
    /\ \E i \in 0..1 : chunk.buffer_ts[i] = args.ts /\ chunk.buffer_values[i] # args.value

\* C6: an upsert of a timestamp that is present, whose resolver gives a
\* resolved value, returns OK, reports 0 samples added, stores the resolved
\* value with that timestamp and changes nothing else.
C6_UpsertOverwrite ==
    [][op' = "upsert" /\ Present(Called, args'.ts) /\ args'.dup.cr = CR_OK =>
        LET c == Called
        IN  /\ ret' = CR_OK
            /\ out' = 0
            /\ chunk'.num_samples = c.num_samples
            /\ chunk'.size = c.size
            /\ chunk'.start_ts = c.start_ts
            /\ \A i \in 0..(c.num_samples - 1) :
                    /\ chunk'.buffer_ts[i] = c.buffer_ts[i]
                    /\ chunk'.buffer_values[i] =
                         IF c.buffer_ts[i] = args'.ts
                         THEN args'.dup.value
                         ELSE c.buffer_values[i]]_vars

\* C6 witness: an upsert has overwritten the value of the second of two
\* samples with a resolved value that is not the incoming one
C6_Witness ==
    /\ op = "upsert"
    /\ ret = CR_OK
    /\ out = 0
    /\ chunk.num_samples = 2
    /\ chunk.buffer_ts[1] = args.ts
    /\ chunk.buffer_values[1] = args.dup.value
    /\ args.dup.value # args.value

\* the number of stored timestamps of c that are less than ts
CountLess(c, ts) == Cardinality({i \in 0..(c.num_samples - 1) : c.buffer_ts[i] < ts})

\* C7: an upsert of a timestamp ts that is not present in a sorted chunk,
\* with p the number of stored timestamps less than ts, returns OK and
\* reports 1 sample added; index p then holds (ts, value), the samples that
\* were at p..n-1 are at p+1..n, those at 0..p-1 are unchanged, num_samples
\* has grown by one, and start_ts is set to ts exactly when p = 0.
C7_UpsertInsert ==
    [][op' = "upsert" /\ ~Present(Called, args'.ts) /\ StrictlyIncreasing(Called) =>
        LET c == Called
            n == c.num_samples
            p == CountLess(c, args'.ts)
        IN  /\ ret' = CR_OK
            /\ out' = 1
            /\ chunk'.num_samples = n + 1
            /\ chunk'.buffer_ts[p] = args'.ts
            /\ chunk'.buffer_values[p] = args'.value
            /\ \A i \in 0..(p - 1) :
                    /\ chunk'.buffer_ts[i] = c.buffer_ts[i]
                    /\ chunk'.buffer_values[i] = c.buffer_values[i]
            /\ \A i \in p..(n - 1) :
                    /\ chunk'.buffer_ts[i + 1] = c.buffer_ts[i]
                    /\ chunk'.buffer_values[i + 1] = c.buffer_values[i]
            /\ chunk'.start_ts = IF p = 0 THEN args'.ts ELSE c.start_ts]_vars

\* C7 witness: an upsert has inserted a sample between two others
C7_Witness ==
    /\ op = "upsert"
    /\ out = 1
    /\ args.ts = 1
    /\ chunk.num_samples = 3
    /\ chunk.buffer_ts[0] = 0
    /\ chunk.buffer_ts[1] = 1
    /\ chunk.buffer_ts[2] = 2

\* C8: upsert never returns END, and returns ERR only on a conflict reported
\* by the resolver; an upsert that inserts into a chunk with
\* num_samples = size / SAMPLE_SIZE grows size by exactly SAMPLE_SIZE, and
\* every other upsert leaves size as it was.
C8_UpsertGrowth ==
    [][op' = "upsert" =>
        LET c == Called
        IN  /\ ret' \in {CR_OK, CR_ERR}
            /\ ret' = CR_ERR => Present(c, args'.ts) /\ args'.dup.cr = CR_ERR
            /\ chunk'.size =
                 IF ~Present(c, args'.ts) /\ c.num_samples = c.size \div SAMPLE_SIZE
                 THEN c.size + SAMPLE_SIZE
                 ELSE c.size]_vars

\* C8 witness: an upsert has inserted a third sample into a chunk that was
\* full with two and whose size was not a multiple of SAMPLE_SIZE
C8_Witness ==
    /\ op = "upsert"
    /\ out = 1
    /\ chunk.num_samples = 3
    /\ chunk.size = 3 * SAMPLE_SIZE + CELL_SIZE

\* C9: split of a chunk of n samples (0 and 1 included) returns a right
\* chunk of floor(n/2) samples and leaves n - floor(n/2) in the original;
\* every timestamp left is <= every timestamp right, and the left samples
\* followed by the right samples are the original samples.
C9_Split ==
    [][op' = "split" =>
        LET c == Called
            n == c.num_samples
            left == chunk'
            right == newChunk'[1]
        IN  /\ right.num_samples = n \div 2
            /\ left.num_samples = n - (n \div 2)
            /\ left.num_samples + right.num_samples = n
            /\ \A i \in 0..(left.num_samples - 1),
                  j \in 0..(right.num_samples - 1) :
                    left.buffer_ts[i] <= right.buffer_ts[j]
            /\ SamplesOf(left) \o SamplesOf(right) = SamplesOf(c)]_vars

\* C9 witness: a chunk of three samples has been split
C9_Witness ==
    /\ op = "split"
    /\ chunk.num_samples = 2
    /\ newChunk # <<>>
    /\ newChunk[1].num_samples = 1

\* the samples of c whose timestamp lies outside [startTs, endTs]
Outside(c, startTs, endTs) ==
    LET keep(s) == ~(startTs <= s[1] /\ s[1] <= endTs)
    IN  SelectSeq(SamplesOf(c), keep)

\* C10: a delete_range(start, end) that returns has removed exactly the
\* samples with start <= t <= end; the count it returns is num_samples before
\* minus num_samples after; the survivors keep their timestamps, values and
\* order; with start > end nothing is removed and 0 is returned.
C10_DelRange ==
    [][op' = "del_range" /\ ret' # FAULT =>
        LET c == Called
        IN  /\ SamplesOf(chunk') = Outside(c, args'.startTs, args'.endTs)
            /\ out' = c.num_samples - chunk'.num_samples
            /\ args'.startTs > args'.endTs =>
                    /\ out' = 0
                    /\ SamplesOf(chunk') = SamplesOf(c)]_vars

\* C10 witness: a delete_range has removed the middle one of three samples
C10_Witness ==
    /\ op = "del_range"
    /\ args.startTs = 1
    /\ args.endTs = 1
    /\ out = 1
    /\ chunk.num_samples = 2
    /\ chunk.buffer_ts[0] = 0
    /\ chunk.buffer_ts[1] = 2

\* the number of samples a delete_range call leaves
Surviving == Len(DelRangeKept(Called, args'.startTs, args'.endTs, 0))

\* C11: a delete_range that removes every sample (one on an empty chunk
\* included) does not read element 0 of the new, empty timestamp buffer: no
\* delete_range reads a cell of the new buffer at an index >= the number of
\* surviving samples.
C11_EmptyNotRead ==
    [][op' = "del_range" => \A i \in DelRangeReads : i < Surviving]_vars

\* C11 failing case: a delete_range has removed the only sample, whose
\* timestamp was 0, and has set start_ts to what it read from the cell of the
\* new buffer that nothing was stored in
C11_Witness ==
    /\ op = "del_range"
    /\ ret # FAULT
    /\ args.startTs = 0
    /\ args.endTs = 0
    /\ out = 1
    /\ chunk.num_samples = 0
    /\ chunk.start_ts = MaxTs

\* after a split, the chunk and the chunk returned hold no slack
SplitShrinks ==
    op' = "split" =>
        /\ chunk'.size = chunk'.num_samples * SAMPLE_SIZE
        /\ newChunk'[1].size = newChunk'[1].num_samples * SAMPLE_SIZE

\* after a delete_range that returns, the chunk holds no slack
DelRangeShrinks ==
    op' = "del_range" /\ ret' # FAULT => chunk'.size = chunk'.num_samples * SAMPLE_SIZE

\* C12: after split returns and after delete_range returns, the affected
\* chunk has size = num_samples * SAMPLE_SIZE (for split: the truncated
\* original and the new right chunk both).
C12_Shrink == [][SplitShrinks /\ DelRangeShrinks]_vars

\* the split half of C12 alone
C12_SplitShrinks == [][SplitShrinks]_vars

\* C12 failing case: a delete_range has removed one of the three samples of
\* a chunk created for three, and size is still that of three samples
C12_Witness ==
    /\ op = "del_range"
    /\ out = 1
    /\ chunk.num_samples = 2
    /\ chunk.size = 3 * SAMPLE_SIZE

\* the field sequence the format prescribes for c
FieldsOf(c) ==
    <<c.size,
      c.start_ts,
      c.num_samples,
      IF c.buffer_in_use THEN 1 ELSE 0,
      [k \in 1..c.num_samples |-> c.buffer_ts[k - 1]],
      [k \in 1..c.num_samples |-> c.buffer_values[k - 1]]>>

\* c and d have equal size, start_ts, num_samples and in_use, and the same
\* timestamps and values at 0..num_samples-1
SameChunk(c, d) ==
    /\ d.size = c.size
    /\ d.start_ts = c.start_ts
    /\ d.num_samples = c.num_samples
    /\ d.buffer_in_use = c.buffer_in_use
    /\ \A i \in 0..(c.num_samples - 1) :
            /\ i \in DOMAIN d.buffer_ts /\ d.buffer_ts[i] = c.buffer_ts[i]
            /\ i \in DOMAIN d.buffer_values /\ d.buffer_values[i] = c.buffer_values[i]

\* C13: for every chunk reachable by append, upsert, split and delete_range,
\* serialize writes size, start_ts, num_samples, in_use, num_samples
\* timestamps and num_samples values, in that order, and deserialize of what
\* it wrote gives a chunk with equal size, start_ts, num_samples and in_use
\* and the same timestamps and values at 0..num_samples-1; the stream and the
\* loaded chunk of the state are those of a live chunk.
C13_RoundTrip ==
    /\ \A c \in LiveChunks :
            /\ TurboGorilla_GenericSerialize(c) = FieldsOf(c)
            /\ \A garbage \in Timestamps :
                    SameChunk(c, TurboGorilla_Deserialize(
                                    TurboGorilla_GenericSerialize(c), garbage))
    /\ stream # <<>> => \E c \in LiveChunks : stream[1] = FieldsOf(c)
    /\ loaded # <<>> => \E c \in LiveChunks : SameChunk(c, loaded[1])

\* C13 witness: a chunk created for three samples and holding two, the
\* first with a timestamp and a value that are not the least of the model,
\* has been saved and loaded back
C13_Witness ==
    /\ op = "deserialize"
    /\ loaded # <<>>
    /\ chunk.size = 3 * SAMPLE_SIZE
    /\ chunk.num_samples = 2
    /\ chunk.buffer_ts[0] = 1
    /\ chunk.buffer_values[0] = MaxVal
    /\ SameChunk(chunk, loaded[1])

\* the num_samples of c is what its two buffers hold and no more than its
\* size allows
Consistent(c) ==
    /\ Cardinality(DOMAIN c.buffer_ts) = c.num_samples
    /\ Cardinality(DOMAIN c.buffer_values) = c.num_samples
    /\ c.num_samples * SAMPLE_SIZE <= c.size

\* C14: deserialize of a stream whose num_samples is inconsistent with the
\* length of a loaded buffer or with the declared size reports an error and
\* produces no chunk: every chunk that deserialize produces is consistent.
C14_Validated == \A i \in DOMAIN loaded : Consistent(loaded[i])

\* C14 failing case: deserialize has produced a chunk that declares three
\* samples with buffers of one
C14_Witness ==
    /\ op = "deserialize"
    /\ loaded # <<>>
    /\ loaded[1].num_samples = 3
    /\ Cardinality(DOMAIN loaded[1].buffer_ts) = 1
    /\ loaded[1].size = 3 * SAMPLE_SIZE

\* In the claims about an iterator call, a step with op' = "next" or "prev"
\* is a call on iter[1]: Iterated is the chunk the iterator is on, Cursor its
\* currentIndex when the call is made.
Iterated == Target(iter[1].chunk)

Cursor == iter[1].currentIndex

\* the sample stored at index i of c
StoredAt(c, i) == [timestamp |-> c.buffer_ts[i], value |-> c.buffer_values[i]]

\* C15: over an unmodified chunk of n samples (n = 0 included), call k + 1
\* of a forward iterator that has had k next() calls and no other returns
\* OK with the sample at index k when k < n and END when k >= n; call k + 1
\* of a reverse iterator that has had k prev() calls and no other returns OK
\* with the sample at index n - 1 - k when k < n and END when k >= n.
C15_Exhaustion ==
    [][/\ op' = "next" /\ iter[1].options = {} /\ driven.prev = 0 =>
            LET n == Iterated.num_samples
                k == driven.next
            IN  IF k < n
                THEN ret' = CR_OK /\ sample' = StoredAt(Iterated, k)
                ELSE ret' = CR_END
       /\ op' = "prev" /\ iter[1].options = {CHUNK_ITER_OP_REVERSE}
                       /\ driven.next = 0 =>
            LET n == Iterated.num_samples
                k == driven.prev
            IN  IF k < n
                THEN ret' = CR_OK /\ sample' = StoredAt(Iterated, n - 1 - k)
                ELSE ret' = CR_END]_vars

\* C15 witness: a reverse iterator over three samples has returned END on
\* its fifth prev(), the last sample it yielded being the first of the chunk
C15_Witness ==
    /\ op = "prev"
    /\ ret = CR_END
    /\ iter[1].options = {CHUNK_ITER_OP_REVERSE}
    /\ driven = [next |-> 0, prev |-> MaxSamples + 2]
    /\ chunk.num_samples = MaxSamples
    /\ sample = StoredAt(chunk, 0)

\* C16: get_sample_value_at(pos) and get_sample_timestamp_at(pos) return
\* ERR and write no output when pos >= num_samples, return OK with the value
\* or timestamp stored at pos when pos < num_samples, and leave the chunk
\* unchanged.
C16_PositionalRead ==
    [][op' \in {"value_at", "timestamp_at"} =>
        LET c == Called
            pos == args'.pos
        IN  /\ chunk' = c
            /\ IF pos >= c.num_samples
               THEN ret' = CR_ERR /\ out' = U
               ELSE /\ ret' = CR_OK
                    /\ out' = IF op' = "value_at"
                               THEN c.buffer_values[pos]
                               ELSE c.buffer_ts[pos]]_vars

\* C16 witness: a positional read at num_samples, inside the capacity of the
\* chunk, has returned ERR
C16_Witness ==
    /\ op = "value_at"
    /\ ret = CR_ERR
    /\ chunk.num_samples = 2
    /\ args.pos = 2
    /\ chunk.size = 3 * SAMPLE_SIZE

\* C17: with (t_1, v_1) ... (t_n, v_n), t_1 < ... < t_n, the samples appended
\* to an empty chunk so far: an append is accepted as long as n is below the
\* capacity; the count is n, the first timestamp t_1 and the last t_n (both
\* -1 when n = 0), and the positional reads at i - 1 return t_i and v_i.
C17_MonotonicAppend ==
    [][LET n == Len(done)
       IN  /\ op' = "add" =>
                (ret' = CR_OK <=> n < Called.size \div SAMPLE_SIZE)
           /\ op' = "count" => out' = n
           /\ op' = "first" => out' = IF n = 0 THEN -1 ELSE done[1][1]
           /\ op' = "last" => out' = IF n = 0 THEN -1 ELSE done[n][1]
           /\ op' = "timestamp_at" /\ args'.pos < n =>
                ret' = CR_OK /\ out' = done[args'.pos + 1][1]
           /\ op' = "value_at" /\ args'.pos < n =>
                ret' = CR_OK /\ out' = done[args'.pos + 1][2]]_vars

\* C17 witness: three samples were appended and the last timestamp is asked
C17_Witness ==
    /\ op = "last"
    /\ Len(done) = MaxSamples
    /\ out = done[MaxSamples][1]
    /\ done[1][1] < done[2][1]

\* C19: for an iterator of either direction over an unmodified chunk of n
\* samples and any interleaving of next() and prev(), a call that returns OK
\* was made with the cursor at an index i, 0 <= i < n; a call made with the
\* cursor outside 0..n-1 returns END and writes no sample.
C19_IteratorBounds ==
    [][op' \in {"next", "prev"} =>
        LET n == Iterated.num_samples
            inside == 0 <= Cursor /\ Cursor < n
        IN  /\ ret' = CR_OK => inside
            /\ ~inside => ret' = CR_END /\ sample' = sample]_vars

\* C19 failing case: a forward iterator over two samples has had two next()
\* calls, and a prev() has returned OK with a sample that is not in the chunk
C19_Witness ==
    /\ op = "prev"
    /\ ret = CR_OK
    /\ iter[1].options = {}
    /\ driven = [next |-> 2, prev |-> 1]
    /\ chunk.num_samples = 2
    /\ \A i \in 0..1 : sample # StoredAt(chunk, i)

\* each array of c is allocated for at least size / SAMPLE_SIZE samples
Allocated(c) == c.alloc >= (c.size \div SAMPLE_SIZE) * CELL_SIZE

\* C18: in every state reached by create, add_sample_optimized, upsert,
\* split, delete_range and deserialize of a serialized chunk, each backing
\* buffer of every chunk is allocated for at least size / SAMPLE_SIZE
\* samples (so that the cell an append to a chunk that is not full writes
\* lies inside it), a chunk that was loaded back included.
C18_Allocated ==
    \A c \in LiveChunks \cup {loaded[i] : i \in DOMAIN loaded} : Allocated(c)

\* C18 failing case: a chunk created for three samples was saved with one,
\* loaded back and appended to; the append returned OK and the chunk counts
\* a sample that lies past the end of its arrays
C18_Witness ==
    /\ op = "add"
    /\ args.h = "loaded"
    /\ ret = CR_OK
    /\ chunk.size = 3 * SAMPLE_SIZE
    /\ chunk.num_samples = 2
    /\ chunk.alloc = CELL_SIZE

\* C20: whatever the order in which samples of pairwise distinct timestamps
\* were upserted into an empty chunk, the chunk holds as many samples as were
\* given, in ascending order of timestamp, each timestamp with its own
\* value, and start_ts is the smallest timestamp: a state that depends on
\* the set of the samples alone.
C20_OrderIndependent ==
    /\ chunk.num_samples = Len(done)
    /\ StrictlyIncreasing(chunk)
    /\ \A k \in DOMAIN done :
            \E i \in 0..(chunk.num_samples - 1) :
                chunk.buffer_ts[i] = done[k][1] /\ chunk.buffer_values[i] = done[k][2]
    /\ done # <<>> =>
            /\ chunk.start_ts \in DoneTimestamps
            /\ \A t \in DoneTimestamps : chunk.start_ts <= t

\* C20 witness: three samples were upserted, the greatest first and the
\* least second
C20_Witness ==
    /\ op = "upsert"
    /\ Len(done) = 3
    /\ done[1][1] = 2
    /\ done[2][1] = 0
    /\ done[3][1] = 1
    /\ done[1][2] # done[2][2]

====
